---------------------------- MODULE Spec2Model ----------------------------
(***************************************************************************)
(* Model of the task / task-group execution engine of multigit             *)
(* (src/src/mg_exec_task_item.py): MgExecTask, MgExecTaskGit,              *)
(* MgExecTaskGroup, MgExecItemOneCmd and MgExecItemMultiCmd.               *)
(*                                                                         *)
(* One task group of git tasks is driven by one MgExecItemMultiCmd.  All   *)
(* handlers run on the single Qt thread, so every handler is one atomic    *)
(* step; the calls a handler makes (signal emissions with direct           *)
(* connections included) are part of that step.  The operators below take  *)
(* the program state as a record s and return the state after the call.    *)
(*                                                                         *)
(* The external process (RunProcess of src/mg_tools.py) is an environment: *)
(* exec_async() starts a process that later reports an exit code through   *)
(* git_task_done; abortProcessInProgress() kills it and the report still   *)
(* arrives later, with either exit code.  The git executable is resolved   *)
(* except under SpecGit, and the tree widget is alive (the RuntimeError    *)
(* branches of the slots are for a dialog that has been closed and are     *)
(* not taken).                                                             *)
(*                                                                         *)
(* Spec is the runner with its task group.  SpecTask is one git task on    *)
(* its own, with nothing connected to sig_task_done, whose owner calls     *)
(* run() and abort() at any time.  SpecGit is SpecTask with a git          *)
(* executable that may be unresolved.  SpecDep is the runner whose group   *)
(* other tasks depend on through the two preconditions.  SpecAnalyse and   *)
(* SpecDelete apply analyseRepoBranchOrTagInfo and doGitDeleteBranch of    *)
(* src/src/mg_dialog_git_switch_delete_branch.py to bounded inputs.        *)
(***************************************************************************)
EXTENDS Integers, Sequences, FiniteSets, TLC

VARIABLES
    tasks,                  \* taskGroup.tasks: index -> [task_state, ignore_failure, run_process]
    aborted,                \* taskGroup.aborted
    taskIdx,                \* MgExecItemMultiCmd.taskIdx
    abortRequested,         \* MgExecItemMultiCmd.abortRequested
    askQuestionUponFailure, \* MgExecItemMultiCmd.askQuestionUponFailure
    nbCmdDone,              \* MgExecItemMultiCmd.nbCmdDone
    nbError,                \* MgExecItemMultiCmd.nbError
    isStarted,              \* MgExecItemMultiCmd.isStarted
    buttonBar,              \* MgExecItemMultiCmd.buttonBar: <<>> is None, <<flags>> a bar showing flags
    children,               \* the tree children of the runner, in order
    procs,                  \* external processes that have not reported yet
    nextPid,                \* identity of the next RunProcess object
    cbLog,                  \* history: one record per cbExecDone invocation
    log,                    \* history: handler entries, dispatches, emissions, slot calls, refreshes
    raised,                 \* exception raised by the last handler, "" if none
    last,                   \* history: the handler that ran last
    nbAbortCalls,           \* number of abortItem() calls, or abort() calls on the task, so far
    nbRetry,                \* number of Retry choices so far
    prog_git,               \* what ExecGit.get_executable() returns: "None", "" or a path
    task_group,             \* the task_group a precondition closure holds: <<>> is None
    path_exists,            \* pathlib.Path(taskGroup.repo.fullpath).exists()
    repoBranchInfo,         \* the argument of analyseRepoBranchOrTagInfo
    ret,                    \* history: what analyseRepoBranchOrTagInfo returned
    dialog,                 \* the delete-branch dialog that was accepted: <<>> is no dialog
    descRepoCmdBranch       \* history: what doGitDeleteBranch handed to the exec window

vars == <<tasks, aborted, taskIdx, abortRequested, askQuestionUponFailure, nbCmdDone,
          nbError, isStarted, buttonBar, children, procs, nextPid, cbLog, log, raised,
          last, nbAbortCalls, nbRetry, prog_git, task_group, path_exists, repoBranchInfo,
          ret, dialog, descRepoCmdBranch>>

\* What the program finds around it: the git executable, the reference a
\* precondition holds, the file system.
envVars == <<prog_git, task_group, path_exists>>

\* The branch dialog and what is computed from it.
dialogVars == <<repoBranchInfo, ret, dialog, descRepoCmdBranch>>

\* ---------------------------------------------------------------- bounds
MaxTasks == 3
MaxAbortCalls == 3
MaxRetry == 2
MaxTaskRuns == 3
MaxDepTasks == 2
MaxRepoInfo == 2

\* ---------------------------------------------------------------- enums
NotStarted == "NotStarted"
Started == "Started"
Successful == "Successful"
Errored == "Errored"
TaskState == {NotStarted, Started, Successful, Errored}

ABORT == "ABORT"
CONTINUE == "CONTINUE"
RETRY == "RETRY"
OK == "OK"
UserActionOnGitError == {ABORT, CONTINUE, RETRY, OK}

None == <<>>
NoPid == 0

\* What a git process prints, line by line: the processes of the model print
\* nothing.
GitStdout == {<<>>}

\* ---------------------------------------------------------------- state record
St ==
    [tasks |-> tasks, aborted |-> aborted, taskIdx |-> taskIdx,
     abortRequested |-> abortRequested, askQuestionUponFailure |-> askQuestionUponFailure,
     nbCmdDone |-> nbCmdDone, nbError |-> nbError, isStarted |-> isStarted,
     buttonBar |-> buttonBar, children |-> children, procs |-> procs, nextPid |-> nextPid,
     cbLog |-> cbLog, log |-> log, raised |-> "",
     prog_git |-> prog_git, task_group |-> task_group, path_exists |-> path_exists]

\* An entry of the history; output is the text, a sequence of lines, that a
\* completion event carries.
EvOut(ev, task, value, output) ==
    [ev |-> ev, task |-> task, value |-> value, output |-> output]

Ev(ev, task, value) == EvOut(ev, task, value, <<>>)

Logged(s, e) == [s EXCEPT !.log = Append(@, e)]

Raise(s, exc) == [s EXCEPT !.raised = exc]

LenTasks(s) == Cardinality(DOMAIN s.tasks)

\* ---------------------------------------------------------------- MgExecTask
is_task_done(t) == t.task_state \in {Successful, Errored}

is_task_started(t) == t.task_state \in {Started, Successful, Errored}

is_task_successful(t) == t.task_state = Successful

is_task_errored(t) == t.task_state = Errored

\* ---------------------------------------------------------------- MgExecTaskGroup
\* Variant of MgExecTaskGroup.abort() that also ends the tasks not yet done.
MgExecTaskGroup_abort_EndsTasks(s) ==
    [s EXCEPT !.aborted = TRUE,
              !.tasks = [i \in DOMAIN s.tasks |->
                           IF is_task_done(s.tasks[i]) THEN s.tasks[i]
                           ELSE [s.tasks[i] EXCEPT !.task_state = Errored]]]

MgExecTaskGroup_abort(s) == [s EXCEPT !.aborted = TRUE]

is_aborted(s) == s.aborted

is_finished(s) ==
    IF is_aborted(s) THEN TRUE
    ELSE \A i \in DOMAIN s.tasks : is_task_done(s.tasks[i])

\* Variant of is_successful that does not look at the aborted flag.
is_successful_IgnoresAbort(s) ==
    \A i \in DOMAIN s.tasks : is_task_successful(s.tasks[i])

is_successful(s) ==
    IF is_aborted(s) THEN FALSE
    ELSE \A i \in DOMAIN s.tasks : is_task_successful(s.tasks[i])

is_errored(s) ==
    IF is_aborted(s) THEN TRUE
    ELSE \E i \in DOMAIN s.tasks : is_task_errored(s.tasks[i])

is_started(s) == \E i \in DOMAIN s.tasks : is_task_started(s.tasks[i])

\* ---------------------------------------------------------------- preconditions
\* PreConditionState; its member Errored is not the member of TaskState.
NotFulfilled == "NotFulfilled"
FulFilled == "FulFilled"
PreErrored == "PreConditionState.Errored"
PreConditionState == {NotFulfilled, FulFilled, PreErrored}

\* The reference to the task group, as opposed to None.
TheTaskGroup == <<"taskGroup">>

\* Variant of is_taskgroup_finished that is fulfilled by a successful group only.
is_taskgroup_finished_NeedsSuccess(s) ==
    IF s.task_group = None THEN PreErrored
    ELSE IF is_successful(s) THEN FulFilled
    ELSE NotFulfilled

\* The function that after_other_taskgroup_is_finished(task_group) returns,
\* evaluated in state s.
is_taskgroup_finished(s) ==
    IF s.task_group = None THEN PreErrored
    ELSE IF is_finished(s) THEN FulFilled
    ELSE NotFulfilled

\* Variant of is_taskgroup_started_and_dir_exists without the test on is_finished.
is_taskgroup_started_and_dir_exists_NoOverride(s) ==
    IF s.task_group = None THEN PreErrored
    ELSE IF ~is_started(s) THEN NotFulfilled
    ELSE IF ~s.path_exists THEN NotFulfilled
    ELSE FulFilled

\* Variant of is_taskgroup_started_and_dir_exists for which a missing
\* directory is an error.
is_taskgroup_started_and_dir_exists_MissingDirIsError(s) ==
    IF s.task_group = None THEN PreErrored
    ELSE IF is_finished(s) THEN FulFilled
    ELSE IF ~is_started(s) THEN NotFulfilled
    ELSE IF ~s.path_exists THEN PreErrored
    ELSE FulFilled

\* The function that after_other_taskgroup_is_started_and_dir_exists(task_group)
\* returns, evaluated in state s.
is_taskgroup_started_and_dir_exists(s) ==
    IF s.task_group = None THEN PreErrored
    ELSE IF is_finished(s) THEN FulFilled
    ELSE IF ~is_started(s) THEN NotFulfilled
    ELSE IF ~s.path_exists THEN NotFulfilled
    ELSE FulFilled

\* The precondition functions a dependent group can hold.
PreConditionFunc == {<<"is_taskgroup_finished">>, <<"is_taskgroup_started_and_dir_exists">>}

\* is_precondition_fulfilled() of a group whose pre_condition is None or one
\* of the functions above.
is_precondition_fulfilled(s, pre_condition) ==
    IF pre_condition = None THEN FulFilled
    ELSE IF pre_condition = <<"is_taskgroup_finished">> THEN is_taskgroup_finished(s)
    ELSE is_taskgroup_started_and_dir_exists(s)


\* ---------------------------------------------------------------- MgExecTaskGit: start
\* RunProcess.exec_async(): a new process object, which reports later.
exec_async(s, i) ==
    [s EXCEPT !.procs = @ \cup {[pid |-> s.nextPid, task |-> i, killed |-> FALSE]},
              !.nextPid = @ + 1]

MgExecTaskGit_do_run(s, i) ==
    IF s.prog_git = "None" \/ s.prog_git = "" THEN Raise(s, "FileNotFoundError")
    ELSE LET s1 == [s EXCEPT !.tasks[i].run_process = s.nextPid]
         IN  Logged(exec_async(s1, i), Ev("do_run", i, TRUE))

\* Variant of run() without the test for a task already started.
MgExecTask_run_NoRejection(s, i) ==
    MgExecTaskGit_do_run([s EXCEPT !.tasks[i].task_state = Started], i)

MgExecTask_run(s, i) ==
    IF s.tasks[i].task_state = Started
    THEN Logged(s, Ev("run_rejected", i, FALSE))
    ELSE MgExecTaskGit_do_run([s EXCEPT !.tasks[i].task_state = Started], i)

\* ---------------------------------------------------------------- MgExecItemMultiCmd
isDone(s) == s.nbCmdDone = LenTasks(s) \/ s.abortRequested

JobItem(i) ==
    [type |-> "job", task |-> i, connected |-> TRUE, abortRequested |-> FALSE,
     refresh_when_completed |-> TRUE]

ButtonBarItem ==
    [type |-> "bar", task |-> -1, connected |-> FALSE, abortRequested |-> FALSE,
     refresh_when_completed |-> FALSE]

MgExecItemOneCmd_run(s, c) == MgExecTask_run(s, s.children[c].task)

cbExecDone(s, value) ==
    Logged([s EXCEPT !.cbLog = Append(@,
                [value |-> value, nbCmdDone |-> s.nbCmdDone, nbError |-> s.nbError,
                 aborted |-> s.aborted, abortRequested |-> s.abortRequested,
                 is_successful |-> is_successful(s), is_finished |-> is_finished(s),
                 tasks |-> s.tasks])],
           Ev("cbExecDone", -1, value))

repo_refresh(s) == Logged(s, Ev("refresh", -1, TRUE))

\* Variant of allCmdDone that reports nbError == 0 alone.
allCmdDone_IgnoresAbort(s) ==
    LET s1 == [s EXCEPT !.nbCmdDone = LenTasks(s)]
        s2 == cbExecDone(s1, s1.nbError = 0)
    IN  repo_refresh(s2)

allCmdDone(s) ==
    LET s1 == [s EXCEPT !.nbCmdDone = LenTasks(s)]
        s2 == cbExecDone(s1, s1.nbError = 0 /\ ~s1.abortRequested)
    IN  repo_refresh(s2)

askQuestionAfterCmdFailed(s) ==
    IF s.abortRequested THEN s
    ELSE LET flags == IF ~isDone(s) THEN {CONTINUE, ABORT, RETRY}
                      ELSE {ABORT, RETRY, OK}
         IN  Logged([s EXCEPT !.children = Append(@, ButtonBarItem),
                              !.buttonBar = <<flags>>],
                    Ev("askQuestion", s.taskIdx, TRUE))

\* Variant of the retrying prologue that leaves the failure counted.
runOneCmdline_retrying_KeepsError(s) ==
    LET k == Len(s.children) - 1
    IN  IF k < 1 \/ s.taskIdx \notin DOMAIN s.tasks THEN Raise(s, "IndexError")
        ELSE IF ~(s.children[k].type = "job" /\ s.children[k].task = s.taskIdx)
        THEN Raise(s, "AssertionError")
        ELSE IF ~s.children[k].connected THEN Raise(s, "RuntimeError")
        ELSE [s EXCEPT !.children[k].connected = FALSE,
                       !.nbCmdDone = @ - 1,
                       !.taskIdx = @ - 1]

\* The retrying prologue of runOneCmdline: child(childCount()-2) is, 1-based,
\* children[Len - 1].
runOneCmdline_retrying(s) ==
    LET k == Len(s.children) - 1
    IN  IF k < 1 \/ s.taskIdx \notin DOMAIN s.tasks THEN Raise(s, "IndexError")
        ELSE IF ~(s.children[k].type = "job" /\ s.children[k].task = s.taskIdx)
        THEN Raise(s, "AssertionError")
        ELSE IF ~s.children[k].connected THEN Raise(s, "RuntimeError")
        ELSE [s EXCEPT !.children[k].connected = FALSE,
                       !.nbCmdDone = @ - 1,
                       !.nbError = @ - 1,
                       !.taskIdx = @ - 1]

\* Variant of the start of runOneCmdline that steps taskIdx by two.
runOneCmdline_start_SkipsOne(s) ==
    IF isDone(s) THEN Raise(s, "AssertionError")
    ELSE LET s1 == [s EXCEPT !.taskIdx = @ + 2]
         IN  IF s1.taskIdx \notin DOMAIN s1.tasks THEN Raise(s1, "IndexError")
             ELSE LET s2 == [s1 EXCEPT !.children = Append(@,
                                 [JobItem(s1.taskIdx) EXCEPT !.refresh_when_completed = FALSE])]
                  IN  MgExecItemOneCmd_run(s2, Len(s2.children))

\* Variant of the start of runOneCmdline without the assertion on isDone.
runOneCmdline_start_NoAssert(s) ==
    LET s1 == [s EXCEPT !.taskIdx = @ + 1]
    IN  IF s1.taskIdx \notin DOMAIN s1.tasks THEN Raise(s1, "IndexError")
        ELSE LET s2 == [s1 EXCEPT !.children = Append(@,
                            [JobItem(s1.taskIdx) EXCEPT !.refresh_when_completed = FALSE])]
             IN  MgExecItemOneCmd_run(s2, Len(s2.children))

runOneCmdline_start(s) ==
    IF isDone(s) THEN Raise(s, "AssertionError")
    ELSE LET s1 == [s EXCEPT !.taskIdx = @ + 1]
         IN  IF s1.taskIdx \notin DOMAIN s1.tasks THEN Raise(s1, "IndexError")
             ELSE LET s2 == [s1 EXCEPT !.children = Append(@,
                                 [JobItem(s1.taskIdx) EXCEPT !.refresh_when_completed = FALSE])]
                  IN  MgExecItemOneCmd_run(s2, Len(s2.children))

runOneCmdline(s, retrying) ==
    IF retrying
    THEN LET s1 == runOneCmdline_retrying(s)
         IN  IF s1.raised # "" THEN s1 ELSE runOneCmdline_start(s1)
    ELSE runOneCmdline_start(s)

MgExecItemMultiCmd_run(s) == runOneCmdline([s EXCEPT !.isStarted = TRUE], FALSE)

\* Variant of slotOneCmdDone that counts every completion as an error.
slotOneCmdDone_CountsEveryCompletion(s, success) ==
    LET s1 == Logged([s EXCEPT !.nbCmdDone = @ + 1,
                               !.nbError = @ + 1],
                     Ev("slotOneCmdDone", -1, success))
    IN  IF ~success /\ ~s1.abortRequested
        THEN IF ~s1.askQuestionUponFailure THEN allCmdDone(s1)
             ELSE askQuestionAfterCmdFailed(s1)
        ELSE IF ~isDone(s1) THEN runOneCmdline(s1, FALSE)
        ELSE allCmdDone(s1)

slotOneCmdDone(s, success) ==
    LET s1 == Logged([s EXCEPT !.nbCmdDone = @ + 1,
                               !.nbError = IF ~success THEN @ + 1 ELSE @],
                     Ev("slotOneCmdDone", -1, success))
    IN  IF ~success /\ ~s1.abortRequested
        THEN IF ~s1.askQuestionUponFailure THEN allCmdDone(s1)
             ELSE askQuestionAfterCmdFailed(s1)
        ELSE IF ~isDone(s1) THEN runOneCmdline(s1, FALSE)
        ELSE allCmdDone(s1)

\* ---------------------------------------------------------------- MgExecItemOneCmd
MgExecItemOneCmd_slotTaskDone(s, c, success) ==
    LET s1 == slotOneCmdDone(Logged(s, Ev("slotTaskDone", s.children[c].task, success)),
                             success)
    IN  IF s1.raised # "" THEN s1
        ELSE IF success /\ s1.children[c].refresh_when_completed THEN repo_refresh(s1)
        ELSE s1

\* sig_task_done.emit(): the connected slots run one after the other, in
\* connection order; an exception raised by a slot ends that slot only.
RECURSIVE EmitTo(_, _, _)
EmitTo(s, listeners, success) ==
    IF listeners = <<>> THEN s
    ELSE EmitTo(MgExecItemOneCmd_slotTaskDone(s, Head(listeners), success),
                Tail(listeners), success)

Indices(seq) == [k \in 1..Len(seq) |-> k]

Listeners(s, i) ==
    LET IsListener(k) == /\ s.children[k].type = "job"
                         /\ s.children[k].task = i
                         /\ s.children[k].connected
    IN  SelectSeq(Indices(s.children), IsListener)

sig_task_done_emit(s, i, success, output) ==
    EmitTo(Logged(s, EvOut("sig_task_done", i, success, output)), Listeners(s, i), success)

\* ---------------------------------------------------------------- MgExecTask: completion
\* Variant of task_done that records the state of a successful run only.
MgExecTask_task_done_KeepsStartedOnFailure(s, i, success, output) ==
    LET s1 == [s EXCEPT !.tasks[i].task_state = IF success THEN Successful ELSE @]
        emitted == IF ~success /\ s.tasks[i].ignore_failure THEN TRUE ELSE success
    IN  sig_task_done_emit(s1, i, emitted, output)

\* Variant of task_done that applies ignore_failure before it records the state.
MgExecTask_task_done_MasksState(s, i, success, output) ==
    LET emitted == IF ~success /\ s.tasks[i].ignore_failure THEN TRUE ELSE success
        s1 == [s EXCEPT !.tasks[i].task_state = IF emitted THEN Successful ELSE Errored]
    IN  sig_task_done_emit(s1, i, emitted, output)

\* Variant of task_done that emits the value it was given, whatever
\* ignore_failure says.
MgExecTask_task_done_NoMask(s, i, success, output) ==
    LET s1 == [s EXCEPT !.tasks[i].task_state = IF success THEN Successful ELSE Errored]
    IN  sig_task_done_emit(s1, i, success, output)

MgExecTask_task_done(s, i, success, output) ==
    LET s1 == [s EXCEPT !.tasks[i].task_state = IF success THEN Successful ELSE Errored]
        emitted == IF ~success /\ s.tasks[i].ignore_failure THEN TRUE ELSE success
    IN  sig_task_done_emit(s1, i, emitted, output)

\* The text that git_task_done passes on, line by line.
git_output(git_exit_code, git_stdout, ignore_failure) ==
    IF git_exit_code = 0 THEN git_stdout
    ELSE git_stdout \o <<"Git did not complete successfully.">>
                    \o (IF ignore_failure THEN <<"Ignoring non relevant git error">>
                        ELSE <<>>)

MgExecTaskGit_git_task_done(s, i, git_exit_code, git_stdout) ==
    MgExecTask_task_done([s EXCEPT !.tasks[i].run_process = NoPid], i, git_exit_code = 0,
                         git_output(git_exit_code, git_stdout, s.tasks[i].ignore_failure))

\* RunProcess.abortProcessInProgress(): the process is killed; its report is
\* still to come.
abortProcessInProgress(s, pid) ==
    [s EXCEPT !.procs = {IF p.pid = pid THEN [p EXCEPT !.killed = TRUE] ELSE p : p \in @}]

MgExecTaskGit_do_abort(s, i) ==
    IF s.tasks[i].task_state # Started THEN Raise(s, "AssertionError")
    ELSE IF s.tasks[i].run_process # NoPid
    THEN [abortProcessInProgress(s, s.tasks[i].run_process)
            EXCEPT !.tasks[i].run_process = NoPid]
    ELSE MgExecTask_task_done(s, i, FALSE, <<>>)

MgExecTask_abort(s, i) ==
    LET s1 == IF s.tasks[i].task_state = NotStarted
              THEN MgExecTask_task_done([s EXCEPT !.tasks[i].task_state = Errored], i, FALSE,
                                        <<"Aborted before started.">>)
              ELSE s
    IN  IF s1.tasks[i].task_state = Started THEN MgExecTaskGit_do_abort(s1, i)
        ELSE s1

MgExecItemOneCmd_abortItem(s, c) ==
    LET s1 == [s EXCEPT !.children[c].abortRequested = TRUE]
        i == s.children[c].task
    IN  IF is_task_done(s1.tasks[i]) THEN s1
        ELSE MgExecTask_abort(s1, i)

\* ---------------------------------------------------------------- MgExecItemMultiCmd: decisions
HasButtonBarItem(s) == \E k \in 1..Len(s.children) : s.children[k].type = "bar"

\* Variant of handleQuestionResult whose Abort branch leaves the task group
\* unmarked.
handleQuestionResult_AbortKeepsGroup(s, result) ==
    IF ~HasButtonBarItem(s) THEN Raise(s, "AssertionError")
    ELSE LET s1 == [s EXCEPT !.buttonBar = None]
         IN  IF result = ABORT \/ s1.abortRequested
             THEN allCmdDone(s1)
             ELSE IF result = CONTINUE THEN runOneCmdline(s1, FALSE)
             ELSE IF result = RETRY THEN runOneCmdline(s1, TRUE)
             ELSE IF result = OK THEN allCmdDone(s1)
             ELSE Raise(s1, "AssertionError")

\* Variant of handleQuestionResult that leaves self.buttonBar set.
handleQuestionResult_KeepsBar(s, result) ==
    IF ~HasButtonBarItem(s) THEN Raise(s, "AssertionError")
    ELSE IF result = ABORT \/ s.abortRequested
         THEN allCmdDone(MgExecTaskGroup_abort(s))
         ELSE IF result = CONTINUE THEN runOneCmdline(s, FALSE)
         ELSE IF result = RETRY THEN runOneCmdline(s, TRUE)
         ELSE IF result = OK THEN allCmdDone(s)
         ELSE Raise(s, "AssertionError")

handleQuestionResult(s, result) ==
    IF ~HasButtonBarItem(s) THEN Raise(s, "AssertionError")
    ELSE LET s1 == [s EXCEPT !.buttonBar = None]
         IN  IF result = ABORT \/ s1.abortRequested
             THEN allCmdDone(MgExecTaskGroup_abort(s1))
             ELSE IF result = CONTINUE THEN runOneCmdline(s1, FALSE)
             ELSE IF result = RETRY THEN runOneCmdline(s1, TRUE)
             ELSE IF result = OK THEN allCmdDone(s1)
             ELSE Raise(s1, "AssertionError")

\* The loop of abortItem: the first child item whose task is started and not done.
InProgress(s) ==
    {k \in 1..Len(s.children) :
        /\ s.children[k].type = "job"
        /\ is_task_started(s.tasks[s.children[k].task])
        /\ ~is_task_done(s.tasks[s.children[k].task])}

Min(S) == CHOOSE x \in S : \A y \in S : x <= y

\* Variant of abortItem without the branch for a pending question.
abortItem_IgnoresPrompt(s) ==
    LET s1 == [MgExecTaskGroup_abort(s) EXCEPT !.abortRequested = TRUE]
    IN  IF s1.nbCmdDone = LenTasks(s1) THEN [s1 EXCEPT !.abortRequested = FALSE]
        ELSE IF ~s1.isStarted THEN allCmdDone(s1)
        ELSE IF InProgress(s1) # {} THEN MgExecItemOneCmd_abortItem(s1, Min(InProgress(s1)))
        ELSE Raise(s1, "ValueError")

abortItem(s) ==
    LET s1 == [MgExecTaskGroup_abort(s) EXCEPT !.abortRequested = TRUE]
    IN  IF s1.buttonBar # None THEN handleQuestionResult(s1, ABORT)
        ELSE IF s1.nbCmdDone = LenTasks(s1) THEN [s1 EXCEPT !.abortRequested = FALSE]
        ELSE IF ~s1.isStarted THEN allCmdDone(s1)
        ELSE IF InProgress(s1) # {} THEN MgExecItemOneCmd_abortItem(s1, Min(InProgress(s1)))
        ELSE Raise(s1, "ValueError")

\* ---------------------------------------------------------------- the state machine
Commit(s) ==
    /\ tasks' = s.tasks
    /\ aborted' = s.aborted
    /\ taskIdx' = s.taskIdx
    /\ abortRequested' = s.abortRequested
    /\ askQuestionUponFailure' = s.askQuestionUponFailure
    /\ nbCmdDone' = s.nbCmdDone
    /\ nbError' = s.nbError
    /\ isStarted' = s.isStarted
    /\ buttonBar' = s.buttonBar
    /\ children' = s.children
    /\ procs' = s.procs
    /\ nextPid' = s.nextPid
    /\ cbLog' = s.cbLog
    /\ log' = s.log
    /\ raised' = s.raised
    /\ UNCHANGED envVars
    /\ UNCHANGED dialogVars

NewTask(ignore) == [task_state |-> NotStarted, ignore_failure |-> ignore, run_process |-> NoPid]

InitProgram ==
    /\ \E n \in 1..MaxTasks : \E ign \in [0..(n - 1) -> BOOLEAN] :
          tasks = [i \in 0..(n - 1) |-> NewTask(ign[i])]
    /\ aborted = FALSE
    /\ taskIdx = -1
    /\ abortRequested = FALSE
    /\ askQuestionUponFailure \in BOOLEAN
    /\ nbCmdDone = 0
    /\ nbError = 0
    /\ isStarted = FALSE
    /\ buttonBar = None
    /\ children = <<>>
    /\ procs = {}
    /\ nextPid = 1
    /\ cbLog = <<>>
    /\ log = <<>>
    /\ raised = ""
    /\ last = "init"
    /\ nbAbortCalls = 0
    /\ nbRetry = 0

\* No branch dialog has been opened.
InitDialog ==
    /\ repoBranchInfo = <<>>
    /\ ret = <<>>
    /\ dialog = None
    /\ descRepoCmdBranch = <<>>

\* The runner of one task group: git is installed, and nothing depends on
\* the group.
Init ==
    /\ InitProgram
    /\ InitDialog
    /\ prog_git = "git"
    /\ task_group = None
    /\ path_exists = FALSE

\* The branch of abortItem() that a call takes in state s, for the history.
AbortCase(s) ==
    IF s.buttonBar # None THEN "abortItem_prompt"
    ELSE IF s.nbCmdDone = LenTasks(s) THEN "abortItem_alldone"
    ELSE IF ~s.isStarted THEN "abortItem_idle"
    ELSE IF InProgress(s) # {} THEN "abortItem_inflight"
    ELSE "abortItem_nothing"

AbortTarget(s) ==
    IF AbortCase(s) = "abortItem_inflight" THEN s.children[Min(InProgress(s))].task ELSE -1

\* The number of entries of the history that record event e.
NbEvents(e) == Cardinality({k \in 1..Len(log) : log[k].ev = e})

\* The scheduler starts a runner that it has not started yet.
Run ==
    /\ ~isStarted
    /\ Commit(MgExecItemMultiCmd_run(Logged(St, Ev("run", -1, TRUE))))
    /\ last' = "run"
    /\ UNCHANGED <<nbAbortCalls, nbRetry>>

\* A process reports its exit code and what it printed to the task that
\* started it.
ProcessFinished ==
    \E p \in procs : \E git_exit_code \in {0, 1} : \E git_stdout \in GitStdout :
        /\ Commit(MgExecTaskGit_git_task_done(
                    Logged([St EXCEPT !.procs = @ \ {p}],
                           Ev("git_task_done", p.task, git_exit_code = 0)),
                    p.task, git_exit_code, git_stdout))
        /\ last' = "git_task_done"
        /\ UNCHANGED <<nbAbortCalls, nbRetry>>

\* The user presses one of the buttons the bar shows.
UserChoice ==
    /\ buttonBar # None
    /\ \E result \in buttonBar[1] :
        /\ result = RETRY => nbRetry < MaxRetry
        /\ Commit(handleQuestionResult(Logged(St, Ev(result, taskIdx, TRUE)), result))
        /\ last' = result
        /\ nbRetry' = IF result = RETRY THEN nbRetry + 1 ELSE nbRetry
    /\ UNCHANGED nbAbortCalls

\* The window aborts the runner.
AbortItem ==
    /\ nbAbortCalls < MaxAbortCalls
    /\ Commit(abortItem(Logged(St, Ev(AbortCase(St), AbortTarget(St), TRUE))))
    /\ last' = "abortItem"
    /\ nbAbortCalls' = nbAbortCalls + 1
    /\ UNCHANGED nbRetry

Next == Run \/ ProcessFinished \/ UserChoice \/ AbortItem

Spec == Init /\ [][Next]_vars

\* ---------------------------------------------------------------- a task on its own
\* A task that no runner owns: its owner calls run() and abort() at any time,
\* and nothing is connected to sig_task_done.
InitTask ==
    /\ Init
    /\ LenTasks(St) = 1
    /\ ~askQuestionUponFailure

\* run() is called on the task, whatever its state.
TaskRun ==
    \E i \in DOMAIN tasks :
        /\ NbEvents("task_run") < MaxTaskRuns
        /\ Commit(MgExecTask_run(Logged(St, Ev("task_run", i, TRUE)), i))
        /\ last' = "task_run"
        /\ UNCHANGED <<nbAbortCalls, nbRetry>>

\* abort() is called on the task, whatever its state.
TaskAbort ==
    \E i \in DOMAIN tasks :
        /\ nbAbortCalls < MaxAbortCalls
        /\ Commit(MgExecTask_abort(Logged(St, Ev("task_abort", i, TRUE)), i))
        /\ last' = "task_abort"
        /\ nbAbortCalls' = nbAbortCalls + 1
        /\ UNCHANGED nbRetry

NextTask == TaskRun \/ TaskAbort \/ ProcessFinished

SpecTask == InitTask /\ [][NextTask]_vars

\* ---------------------------------------------------------------- analyseRepoBranchOrTagInfo
\* Branch names; repository names are numbers, ordered as the strings are.
BranchNames == {"master", "dev"}

\* set(list)
ToSet(list) == {list[k] : k \in 1..Len(list)}

\* A defaultdict(set) is a function from its keys to sets.  Reading a missing
\* key inserts it with an empty set.
EmptyDict == [k \in {} |-> {}]

Touch(d, k) == IF k \in DOMAIN d THEN d ELSE d @@ (k :> {})

\* d[k].add(repo) for every k of names
RECURSIVE AddRepo(_, _, _)
AddRepo(d, names, repo) ==
    IF names = {} THEN d
    ELSE LET k == CHOOSE n \in names : TRUE
         IN  AddRepo([Touch(d, k) EXCEPT ![k] = @ \cup {repo}], names \ {k}, repo)

\* The first loop: one iteration per (repo, local_branches, remote_branches).
\* ds holds the three dictionaries and the exception raised, if any.
RECURSIVE CollectBranches(_, _)
CollectBranches(ds, info) ==
    IF info = <<>> \/ ds.raised # "" THEN ds
    ELSE LET repo == Head(info)[1]
             local_branches == Head(info)[2]
             remote_branches == Head(info)[3]
             set_local_and_remote_branches == ToSet(local_branches) \cap ToSet(remote_branches)
             set_only_local_branches == ToSet(local_branches) \ set_local_and_remote_branches
             set_only_remote_branches == ToSet(remote_branches) \ set_local_and_remote_branches
         IN  IF \/ Cardinality(set_only_local_branches)
                      + Cardinality(set_local_and_remote_branches) # Len(local_branches)
                \/ Cardinality(set_only_remote_branches)
                      + Cardinality(set_local_and_remote_branches) # Len(remote_branches)
             THEN [ds EXCEPT !.raised = "AssertionError"]
             ELSE CollectBranches(
                    [ds EXCEPT !.local_br_dict = AddRepo(@, set_only_local_branches, repo),
                               !.remote_br_dict = AddRepo(@, set_only_remote_branches, repo),
                               !.local_and_remote_br_dict =
                                   AddRepo(@, set_local_and_remote_branches, repo)],
                    Tail(info))

\* Variant of the second loop's iteration without its second test: a local
\* name is moved only when some repository has it as a remote-only name.
MoveLocal_OnlyChecksRemote(ds, name) ==
    LET d1 == [ds EXCEPT !.remote_br_dict = Touch(@, name)]
    IN  IF Cardinality(d1.remote_br_dict[name]) > 0
        THEN [d1 EXCEPT !.local_and_remote_br_dict =
                            [Touch(@, name) EXCEPT ![name] =
                                @ \cup d1.local_br_dict[name] \cup d1.remote_br_dict[name]],
                        !.local_br_dict[name] = {},
                        !.remote_br_dict[name] = {}]
        ELSE d1

\* One iteration of the second loop, for a key of local_br_dict.
MoveLocal(ds, name) ==
    LET d1 == [ds EXCEPT !.remote_br_dict = Touch(@, name)]
    IN  IF Cardinality(d1.remote_br_dict[name]) > 0
        THEN [d1 EXCEPT !.local_and_remote_br_dict =
                            [Touch(@, name) EXCEPT ![name] =
                                @ \cup d1.local_br_dict[name] \cup d1.remote_br_dict[name]],
                        !.local_br_dict[name] = {},
                        !.remote_br_dict[name] = {}]
        ELSE LET d2 == [d1 EXCEPT !.local_and_remote_br_dict = Touch(@, name)]
             IN  IF Cardinality(d2.local_and_remote_br_dict[name]) > 0
                 THEN [d2 EXCEPT !.local_and_remote_br_dict[name] = @ \cup d2.local_br_dict[name],
                                 !.local_br_dict[name] = {}]
                 ELSE d2

RECURSIVE MoveLocals(_, _)
MoveLocals(ds, names) ==
    IF names = {} THEN ds
    ELSE LET name == CHOOSE n \in names : TRUE
         IN  MoveLocals(MoveLocal(ds, name), names \ {name})

\* One iteration of the third loop, for a key of remote_br_dict.
MoveRemote(ds, name) ==
    IF name \in DOMAIN ds.local_and_remote_br_dict
    THEN [ds EXCEPT !.local_and_remote_br_dict[name] = @ \cup ds.remote_br_dict[name],
                    !.remote_br_dict[name] = {}]
    ELSE ds

RECURSIVE MoveRemotes(_, _)
MoveRemotes(ds, names) ==
    IF names = {} THEN ds
    ELSE LET name == CHOOSE n \in names : TRUE
         IN  MoveRemotes(MoveRemote(ds, name), names \ {name})

\* list(sorted(repos))
RECURSIVE sorted(_)
sorted(repos) ==
    IF repos = {} THEN <<>>
    ELSE LET m == CHOOSE x \in repos : \A y \in repos : x <= y
         IN  <<m>> \o sorted(repos \ {m})

\* The three loops that build ret, for the dictionary d: keys is the order in
\* which d.items() yields the keys.
RECURSIVE Items(_, _, _)
Items(d, keys, kind) ==
    IF keys = <<>> THEN <<>>
    ELSE LET name == Head(keys)
             repos == d[name]
         IN  (IF Cardinality(repos) > 0
              THEN << <<name, Cardinality(repos), kind, sorted(repos)>> >>
              ELSE <<>>) \o Items(d, Tail(keys), kind)

\* The orders in which a dictionary can yield its keys: the order of
\* insertion, which follows the iteration order of sets of strings.
KeyOrders(d) ==
    {keys \in [1..Cardinality(DOMAIN d) -> DOMAIN d] :
        \A k \in DOMAIN d : \E j \in 1..Cardinality(DOMAIN d) : keys[j] = k}

\* The dictionaries at the end of the three loops.
BranchDicts(info) ==
    LET ds1 == CollectBranches([local_br_dict |-> EmptyDict, remote_br_dict |-> EmptyDict,
                                local_and_remote_br_dict |-> EmptyDict, raised |-> ""], info)
        ds2 == MoveLocals(ds1, DOMAIN ds1.local_br_dict)
    IN  IF ds1.raised # "" THEN ds1
        ELSE MoveRemotes(ds2, DOMAIN ds2.remote_br_dict)

\* What analyseRepoBranchOrTagInfo(info) can return: one list per order of
\* the keys; no list when it raises.
analyseRepoBranchOrTagInfo(info) ==
    LET ds == BranchDicts(info)
    IN  IF ds.raised # "" THEN {}
        ELSE {Items(ds.local_br_dict, ko[1], "local")
                \o Items(ds.remote_br_dict, ko[2], "remote")
                \o Items(ds.local_and_remote_br_dict, ko[3], "local and remote") :
              ko \in KeyOrders(ds.local_br_dict)
                        \X KeyOrders(ds.remote_br_dict)
                        \X KeyOrders(ds.local_and_remote_br_dict)}

\* The lists of branches of one repository: no name twice, and one list per
\* set of names, since the function reads set(list) and len(list) only.
BranchLists ==
    {CHOOSE list \in [1..Cardinality(S) -> BranchNames] : ToSet(list) = S :
        S \in SUBSET BranchNames}

\* The variables of the runner and of its tasks.
runnerVars ==
    <<tasks, aborted, taskIdx, abortRequested, askQuestionUponFailure, nbCmdDone, nbError,
      isStarted, buttonBar, children, procs, nextPid, cbLog, log, nbAbortCalls, nbRetry>>

\* The dialog has collected the branches of up to MaxRepoInfo repositories.
InitAnalyse ==
    /\ InitProgram
    /\ DOMAIN tasks = {0}
    /\ ~tasks[0].ignore_failure
    /\ ~askQuestionUponFailure
    /\ prog_git = "git"
    /\ task_group = None
    /\ path_exists = FALSE
    /\ \E n \in 0..MaxRepoInfo :
          repoBranchInfo \in [1..n -> (1..MaxRepoInfo) \X BranchLists \X BranchLists]
    /\ ret = <<>>
    /\ dialog = None
    /\ descRepoCmdBranch = <<>>

\* The dialog calls analyseRepoBranchOrTagInfo(repoBranchInfo).
Analyse ==
    /\ last = "init"
    /\ last' = "analyse"
    /\ IF analyseRepoBranchOrTagInfo(repoBranchInfo) = {}
       THEN raised' = BranchDicts(repoBranchInfo).raised /\ ret' = ret
       ELSE raised' = "" /\ ret' \in analyseRepoBranchOrTagInfo(repoBranchInfo)
    /\ UNCHANGED runnerVars
    /\ UNCHANGED envVars
    /\ UNCHANGED <<repoBranchInfo, dialog, descRepoCmdBranch>>

SpecAnalyse == InitAnalyse /\ [][Analyse]_vars

\* ---------------------------------------------------------------- doGitDeleteBranch
\* A branch name is the sequence of its parts between '/': 'fix/dev' is
\* <<"fix", "dev">>, and the remote branch 'origin/fix/dev' is
\* <<"origin", "fix", "dev">>.
DeleteBranchNames == {<<"dev">>, <<"fix", "dev">>}

\* The remote branches a repository can have, on two remotes.
RemoteBranchNames == {<<"origin", "dev">>, <<"upstream", "fix", "dev">>}

\* name[name.index('/') + 1:]
AfterFirstSlash(name) == Tail(name)

\* [f(name) for name in list]
StripRemotes(list) == [k \in 1..Len(list) |-> AfterFirstSlash(list[k])]

\* Variant of the loop body that deletes locally first.
DeleteCmds_LocalFirst(repo, branchName, dlg) ==
    (IF branchName \in ToSet(repo.branches_local) /\ dlg.checkBoxDeleteLocalBranch
     THEN << <<"branch", "-d", branchName>> >> ELSE <<>>)
    \o (IF branchName \in ToSet(StripRemotes(repo.branches_remote))
           /\ dlg.checkBoxDeleteRemoteBranch
        THEN << <<"push", "origin", "--delete", branchName>> >> ELSE <<>>)

\* The body of the loop over deleteBranchesName: the commands appended to
\* gitCmds for one branch name.
DeleteCmds(repo, branchName, dlg) ==
    (IF branchName \in ToSet(StripRemotes(repo.branches_remote))
        /\ dlg.checkBoxDeleteRemoteBranch
     THEN << <<"push", "origin", "--delete", branchName>> >> ELSE <<>>)
    \o (IF branchName \in ToSet(repo.branches_local) /\ dlg.checkBoxDeleteLocalBranch
        THEN << <<"branch", "-d", branchName>> >> ELSE <<>>)

\* The loop over deleteBranchesName for one repository.
RECURSIVE gitCmdsOf(_, _, _)
gitCmdsOf(repo, names, dlg) ==
    IF names = <<>> THEN <<>>
    ELSE DeleteCmds(repo, Head(names), dlg) \o gitCmdsOf(repo, Tail(names), dlg)

\* The loop over dialog.getTargetedRepoList().
RECURSIVE doGitDeleteBranch(_, _)
doGitDeleteBranch(repos, dlg) ==
    IF repos = <<>> THEN <<>>
    ELSE LET gitCmds == gitCmdsOf(Head(repos), dlg.deleteBranchesName, dlg)
         IN  (IF Len(gitCmds) > 0
              THEN << <<"Git Delete branch", Head(repos), gitCmds>> >>
              ELSE <<>>) \o doGitDeleteBranch(Tail(repos), dlg)

\* One list per set of names, local or remote.
ListOf(S) == CHOOSE list \in [1..Cardinality(S) -> S] : ToSet(list) = S

\* The repositories a dialog can target: repository k of the list has name k.
DeleteRepos ==
    UNION {[1..n -> [branches_local : {ListOf(S) : S \in SUBSET DeleteBranchNames},
                     branches_remote : {ListOf(S) : S \in SUBSET RemoteBranchNames}]] :
           n \in 0..MaxRepoInfo}

\* What the user can type in the line edit: up to two names, possibly the
\* same name twice.
DeleteTargets ==
    UNION {[1..n -> DeleteBranchNames] : n \in 0..Cardinality(DeleteBranchNames)}

\* The delete dialog has been accepted.
InitDelete ==
    /\ InitProgram
    /\ DOMAIN tasks = {0}
    /\ ~tasks[0].ignore_failure
    /\ ~askQuestionUponFailure
    /\ prog_git = "git"
    /\ task_group = None
    /\ path_exists = FALSE
    /\ repoBranchInfo = <<>>
    /\ ret = <<>>
    /\ dialog \in [deleteBranchesName : DeleteTargets,
                    targetedRepoList : DeleteRepos,
                    checkBoxDeleteRemoteBranch : BOOLEAN,
                    checkBoxDeleteLocalBranch : BOOLEAN]
    /\ descRepoCmdBranch = <<>>

\* runDialogGitSwitchDelete calls doGitDeleteBranch(parent, dialog).
Delete ==
    /\ last = "init"
    /\ last' = "delete"
    /\ descRepoCmdBranch' =
          doGitDeleteBranch([k \in 1..Len(dialog.targetedRepoList) |->
                                [name |-> k,
                                 branches_local |-> dialog.targetedRepoList[k].branches_local,
                                 branches_remote |-> dialog.targetedRepoList[k].branches_remote]],
                            dialog)
    /\ raised' = ""
    /\ UNCHANGED runnerVars
    /\ UNCHANGED envVars
    /\ UNCHANGED <<repoBranchInfo, ret, dialog>>

SpecDelete == InitDelete /\ [][Delete]_vars

\* ---------------------------------------------------------------- a task without git
\* The task on its own, on a machine where the git executable may not be
\* resolved: get_executable() returns None, an empty string or a path.
InitGit ==
    /\ InitProgram
    /\ InitDialog
    /\ prog_git \in {"None", "", "git"}
    /\ task_group = None
    /\ path_exists = FALSE
    /\ LenTasks(St) = 1
    /\ ~askQuestionUponFailure

SpecGit == InitGit /\ [][NextTask]_vars

\* ---------------------------------------------------------------- a group others depend on
\* The task group of the runner is the dependency of other groups, whose
\* preconditions hold a reference to it, or None; its repository directory
\* appears and disappears on disk.
InitDep ==
    /\ InitProgram
    /\ InitDialog
    /\ prog_git = "git"
    /\ task_group \in {None, TheTaskGroup}
    /\ path_exists \in BOOLEAN
    /\ LenTasks(St) <= MaxDepTasks

\* The owner of the task group calls abort() on it.
GroupAbort ==
    /\ Commit(MgExecTaskGroup_abort(St))
    /\ last' = "group_abort"
    /\ UNCHANGED <<nbAbortCalls, nbRetry>>

\* git, or the user, creates the directory of the repository.
PathCreated ==
    /\ ~path_exists
    /\ path_exists' = TRUE
    /\ UNCHANGED <<tasks, aborted, taskIdx, abortRequested, askQuestionUponFailure,
                   nbCmdDone, nbError, isStarted, buttonBar, children, procs, nextPid,
                   cbLog, log, raised, last, nbAbortCalls, nbRetry, prog_git, task_group>>
    /\ UNCHANGED dialogVars

\* The directory of the repository is removed.
PathRemoved ==
    /\ path_exists
    /\ path_exists' = FALSE
    /\ UNCHANGED <<tasks, aborted, taskIdx, abortRequested, askQuestionUponFailure,
                   nbCmdDone, nbError, isStarted, buttonBar, children, procs, nextPid,
                   cbLog, log, raised, last, nbAbortCalls, nbRetry, prog_git, task_group>>
    /\ UNCHANGED dialogVars

NextDep ==
    \/ Run \/ ProcessFinished \/ UserChoice \/ AbortItem
    \/ GroupAbort \/ PathCreated \/ PathRemoved

SpecDep == InitDep /\ [][NextDep]_vars

\* ---------------------------------------------------------------- properties
\* The log entries that mark the entry of a handler.
HandlerEvents ==
    {"run", "git_task_done", ABORT, CONTINUE, RETRY, OK, "abortItem_prompt",
     "abortItem_alldone", "abortItem_idle", "abortItem_inflight", "abortItem_nothing"}

Group == [tasks |-> tasks, aborted |-> aborted]

StartedTasks == {i \in DOMAIN tasks : tasks[i].task_state = Started}

AllTasksDone == \A i \in DOMAIN tasks : is_task_done(tasks[i])

\* The runner has been started or aborted and nothing is pending any more:
\* no process is to report and no question is open.
GroupEnded == (isStarted \/ aborted) /\ procs = {} /\ buttonBar = None

\* C1: cbExecDone is invoked exactly once per group: at most once in every
\* state, and at least once when the group has ended.
C1_CallbackExactlyOnce ==
    /\ Len(cbLog) <= 1
    /\ GroupEnded => Len(cbLog) >= 1

\* C2: task N+1 is started only when task N is Successful or Errored, and at
\* most one task of the group is in state Started.
C2_OneTaskAtATime ==
    /\ Cardinality(StartedTasks) <= 1
    /\ \A i \in DOMAIN tasks :
          (i > 0 /\ is_task_started(tasks[i])) => is_task_done(tasks[i - 1])

\* A later task runs after the user chose Continue on a failed one.
C2_Witness ==
    /\ last = CONTINUE
    /\ \E i \in DOMAIN tasks :
          i > 0 /\ tasks[i].task_state = Started /\ tasks[i - 1].task_state = Errored

\* C3: when task i has been started, every task below i is Successful or
\* Errored, and every task above the highest started index is NotStarted.
C3_SequenceOrder ==
    /\ \A i \in DOMAIN tasks : is_task_started(tasks[i]) =>
          \A j \in DOMAIN tasks : j < i => is_task_done(tasks[j])
    /\ \A j \in DOMAIN tasks :
          (\A i \in DOMAIN tasks : is_task_started(tasks[i]) => i < j)
             => tasks[j].task_state = NotStarted

\* The middle task of three is in flight.
C3_Witness ==
    \E i, j \in DOMAIN tasks :
        /\ 0 < i /\ i < j
        /\ tasks[i].task_state = Started
        /\ tasks[0].task_state = Successful
        /\ tasks[j].task_state = NotStarted

\* C4: the Retry choice after task i failed dispatches task i once, and
\* nothing else, and every completion emitted reaches slotOneCmdDone exactly once.
C4_RetryRunsTaskOnce ==
    /\ last = RETRY =>
          /\ Len(log) >= 2
          /\ log[Len(log) - 1] = Ev(RETRY, taskIdx, TRUE)
          /\ log[Len(log)] = Ev("do_run", taskIdx, TRUE)
          /\ tasks[taskIdx].task_state = Started
    /\ \A k \in 1..Len(log) : log[k].ev = "sig_task_done" =>
          /\ k + 2 <= Len(log)
          /\ log[k + 1].ev = "slotTaskDone"
          /\ log[k + 2].ev = "slotOneCmdDone"
          /\ \A m \in (k + 3)..Len(log) : log[m].ev = "slotTaskDone" =>
                \E q \in (k + 1)..(m - 1) : log[q].ev = "sig_task_done"

\* C5: abortItem() on a runner whose tasks have all finished changes neither
\* the callback count, nor nbCmdDone, nbError, nor the answers of
\* is_successful(), is_errored() and is_aborted().
C5_AbortAfterFinishKeepsOutcome ==
    [][(/\ nbAbortCalls' = nbAbortCalls + 1
        /\ AllTasksDone /\ buttonBar = None /\ nbCmdDone = LenTasks(St))
       => /\ cbLog' = cbLog
          /\ nbCmdDone' = nbCmdDone
          /\ nbError' = nbError
          /\ is_successful(Group)' = is_successful(Group)
          /\ is_errored(Group)' = is_errored(Group)
          /\ is_aborted(Group)' = is_aborted(Group)]_vars

\* C6: an abortItem() call that follows an abortItem() call changes neither the
\* counters, nor the task group's flags and task states, nor the number of
\* callback invocations and of completion notifications.
C6_AbortItemIdempotent ==
    [][(last = "abortItem" /\ nbAbortCalls' = nbAbortCalls + 1)
       => /\ nbCmdDone' = nbCmdDone
          /\ nbError' = nbError
          /\ aborted' = aborted
          /\ tasks' = tasks
          /\ Len(cbLog') = Len(cbLog)
          /\ NbEvents("sig_task_done")' = NbEvents("sig_task_done")]_vars

\* C7: an abortItem() call made while a task is in flight cancels that task
\* only and returns without emitting or finalizing; no task is started and
\* no question is asked afterwards; the report of the cancelled task
\* finalizes the runner with overallSuccess = false.
C7_AbortInFlight ==
    /\ \A p \in procs : p.killed =>
          /\ \E k \in 1..Len(log) :
                log[k].ev = "abortItem_inflight" /\ log[k].task = p.task
          /\ \A q \in procs : q.killed => q = p
    /\ \A k \in 1..Len(log) : log[k].ev = "abortItem_inflight" =>
          /\ k < Len(log) => log[k + 1].ev \in HandlerEvents
          /\ \A m \in (k + 1)..Len(log) : log[m].ev \notin {"do_run", "askQuestion"}
          /\ \A m \in (k + 1)..Len(log) :
                (/\ log[m].ev = "git_task_done"
                 /\ log[m].task = log[k].task
                 /\ \A q \in (k + 1)..(m - 1) :
                       ~(log[q].ev = "git_task_done" /\ log[q].task = log[k].task))
                => \E q \in (m + 1)..Len(log) :
                      /\ log[q] = Ev("cbExecDone", -1, FALSE)
                      /\ \A r \in (m + 1)..q : log[r].ev \notin HandlerEvents

\* C8: abortItem() with a question pending removes the question, marks the
\* task group aborted and finalizes in the same call with overallSuccess =
\* false; no task is started afterwards.
C8_AbortResolvesPrompt ==
    \A k \in 1..Len(log) : log[k].ev = "abortItem_prompt" =>
        /\ aborted
        /\ k + 2 <= Len(log)
        /\ log[k + 1] = Ev("cbExecDone", -1, FALSE)
        /\ log[k + 2].ev = "refresh"
        /\ k + 2 = Len(log) => buttonBar = None
        /\ \A m \in (k + 1)..Len(log) : log[m].ev \notin {"do_run", "askQuestion"}

\* abortItem() has just resolved the question asked for a failed task.
C8_Witness ==
    /\ last = "abortItem"
    /\ Len(log) >= 3
    /\ log[Len(log) - 2].ev = "abortItem_prompt"
    /\ \E i \in DOMAIN tasks : tasks[i].task_state = NotStarted

\* C9: abortItem() on a runner that was never run finalizes in the same call:
\* one callback, with false, the task group aborted, and every task
\* NotStarted then and later, also when run() is called afterwards.
C9_AbortBeforeRun ==
    (\E k \in 1..Len(log) : log[k].ev = "abortItem_idle") =>
        /\ aborted
        /\ \A i \in DOMAIN tasks : tasks[i].task_state = NotStarted
        /\ Len(cbLog) = 1
        /\ cbLog[1].value = FALSE
        /\ \A m \in 1..Len(log) : log[m].ev # "do_run"

\* run() has been called on a runner that was aborted before.
C9_Witness ==
    /\ \E k \in 1..Len(log) : log[k].ev = "abortItem_idle"
    /\ last = "run"

\* C10: at every invocation of cbExecDone, nbCmdDone is the number of tasks
\* and the value passed is true exactly when nbError is 0 and the task group
\* is not aborted.
C10_CallbackValue ==
    \A k \in 1..Len(cbLog) :
        /\ cbLog[k].nbCmdDone = LenTasks(St)
        /\ cbLog[k].value = (cbLog[k].nbError = 0 /\ ~cbLog[k].aborted)

\* The callback has been invoked after the user chose Abort in the question.
C10_Witness ==
    \E k \in 1..Len(cbLog) :
        /\ cbLog[k].aborted
        /\ ~cbLog[k].abortRequested
        /\ cbLog[k].nbError > 0
        /\ ~cbLog[k].value

\* The positions of the log at which a handler was entered.
Handlers == {k \in 1..Len(log) : log[k].ev \in HandlerEvents}

\* C11: when run() was called once, every one of the N tasks reported success
\* and nothing else happened (no abort, no question), the runner has finalized
\* once with overallSuccess = true, nbCmdDone = N, nbError = 0, and
\* is_successful() answers true.
C11_AllSucceed ==
    (/\ \A k \in Handlers :
           log[k].ev = "run" \/ (log[k].ev = "git_task_done" /\ log[k].value)
     /\ NbEvents("run") = 1
     /\ NbEvents("git_task_done") = LenTasks(St))
    => /\ Len(cbLog) = 1
       /\ cbLog[1].value
       /\ nbCmdDone = LenTasks(St)
       /\ nbError = 0
       /\ is_successful(Group)

\* Three tasks have run to success, one after the other.
C11_Witness ==
    /\ LenTasks(St) = MaxTasks
    /\ NbEvents("run") = 1
    /\ NbEvents("git_task_done") = MaxTasks
    /\ \A k \in Handlers :
          log[k].ev = "run" \/ (log[k].ev = "git_task_done" /\ log[k].value)
    /\ Len(cbLog) = 1

\* The first failure reported to slotOneCmdDone is at position k of the log.
FirstFail(k) ==
    /\ log[k] = Ev("slotOneCmdDone", -1, FALSE)
    /\ \A q \in 1..(k - 1) : log[q] # Ev("slotOneCmdDone", -1, FALSE)

\* C12: with askQuestionUponFailure = false no question is asked and no retry
\* happens, and the first completion that reports failure finalizes at once:
\* the callback receives false with nbError = 1, and no task is started
\* afterwards, the tasks above the failed one staying NotStarted.
C12_NoQuestionFinalizes ==
    ~askQuestionUponFailure =>
        /\ NbEvents("askQuestion") = 0
        /\ NbEvents(RETRY) = 0
        /\ buttonBar = None
        /\ \A k \in 1..Len(log) : FirstFail(k) =>
              /\ k + 1 <= Len(log)
              /\ log[k + 1] = Ev("cbExecDone", -1, FALSE)
              /\ cbLog[1].nbError = 1
              /\ \A m \in (k + 1)..Len(log) : log[m].ev # "do_run"
              /\ \A j \in DOMAIN tasks : j > taskIdx => tasks[j].task_state = NotStarted

\* C13: the Continue choice after task i failed dispatches task i + 1 at once;
\* task i is not dispatched again, nbError stays at least 1, and every later
\* callback receives false.
C13_ContinueRunsNext ==
    \A k \in 1..Len(log) : log[k].ev = CONTINUE =>
        /\ k + 1 <= Len(log)
        /\ log[k + 1] = Ev("do_run", log[k].task + 1, TRUE)
        /\ nbError >= 1
        /\ \A m \in (k + 1)..Len(log) : log[m].ev = "cbExecDone" => ~log[m].value
        /\ \A m \in (k + 1)..Len(log) : log[m].ev = "do_run" => log[m].task > log[k].task

\* C14: when the only things that happened are run(), process reports and
\* Retry choices (at least one), every failure was retried; once the runner
\* has finalized, it has done so once, with overallSuccess = true,
\* nbCmdDone = N and nbError = 0.
C14_RetryLeavesNoTrace ==
    (/\ \A k \in Handlers : log[k].ev \in {"run", "git_task_done", RETRY}
     /\ NbEvents(RETRY) >= 1
     /\ Len(cbLog) >= 1)
    => /\ Len(cbLog) = 1
       /\ cbLog[1].value
       /\ cbLog[1].nbError = 0
       /\ nbCmdDone = LenTasks(St)
       /\ nbError = 0

\* A task failed twice, was retried twice, and the runner has finalized.
C14_Witness ==
    /\ \A k \in Handlers : log[k].ev \in {"run", "git_task_done", RETRY}
    /\ NbEvents(RETRY) = MaxRetry
    /\ Len(cbLog) = 1

\* C15: the question asked after a failure offers {Continue, Abort, Retry}
\* when tasks remain after the failed one and {Abort, Retry, Ok} when the
\* failed task is the last one.
C15_PromptOptions ==
    buttonBar # None =>
        buttonBar[1] = IF taskIdx < LenTasks(St) - 1 THEN {CONTINUE, ABORT, RETRY}
                       ELSE {ABORT, RETRY, OK}

\* C16: the Abort choice marks the task group aborted and finalizes at once
\* with overallSuccess = false; no task is started and no question is asked
\* afterwards.
C16_UserAbort ==
    \A k \in 1..Len(log) : log[k].ev = ABORT =>
        /\ aborted
        /\ k + 1 <= Len(log)
        /\ log[k + 1] = Ev("cbExecDone", -1, FALSE)
        /\ \A m \in (k + 1)..Len(log) : log[m].ev \notin {"do_run", "askQuestion"}

\* The user chose Abort, with a task still to run, and abortItem() was never
\* called.
C16_Witness ==
    /\ last = ABORT
    /\ nbAbortCalls = 0
    /\ \E i \in DOMAIN tasks : tasks[i].task_state = NotStarted

\* The entry that a step adds first to the history is the call of handler ev
\* on task i.
Called(ev, i) ==
    /\ Len(log') > Len(log)
    /\ log'[Len(log) + 1].ev = ev
    /\ log'[Len(log) + 1].task = i

\* C17: run() on a task in state Started leaves the task Started, dispatches
\* nothing and emits nothing.
C17_RunWhileStartedRejected ==
    [][\A i \in DOMAIN tasks :
          (Called("task_run", i) /\ tasks[i].task_state = Started)
          => /\ tasks' = tasks
             /\ procs' = procs
             /\ nextPid' = nextPid
             /\ NbEvents("do_run")' = NbEvents("do_run")
             /\ NbEvents("sig_task_done")' = NbEvents("sig_task_done")]_vars

\* run() has just been called on a task whose process is running.
C17_Witness ==
    /\ last = "task_run"
    /\ log[Len(log)].ev = "run_rejected"
    /\ \E p \in procs : ~p.killed /\ tasks[p.task].run_process = p.pid

\* C18: when a step calls task_done, the task becomes Successful if the
\* reported value is true and Errored if it is false, and the event emitted
\* carries the reported value, or true when ignore_failure is set.  The
\* reported value is the exit status for a process report and false for a
\* completion that abort() synthesizes.
C18_IgnoreFailureMasksEvent ==
    [][\A i \in DOMAIN tasks :
          (/\ Len(log') > Len(log)
           /\ log'[Len(log')].ev = "sig_task_done"
           /\ log'[Len(log')].task = i)
          => LET reported == /\ log'[Len(log) + 1].ev = "git_task_done"
                             /\ log'[Len(log) + 1].value
             IN  /\ tasks'[i].task_state = IF reported THEN Successful ELSE Errored
                 /\ is_task_errored(tasks'[i]) = ~reported
                 /\ is_task_successful(tasks'[i]) = reported
                 /\ log'[Len(log')].value = (reported \/ tasks[i].ignore_failure)]_vars

\* The process of a task with ignore_failure set has just reported a failure.
C18_Witness ==
    /\ last = "git_task_done"
    /\ Len(log) >= 2
    /\ log[Len(log) - 1] = Ev("git_task_done", 0, FALSE)
    /\ log[Len(log)].ev = "sig_task_done"
    /\ log[Len(log)].value
    /\ tasks[0].ignore_failure
    /\ tasks[0].task_state = Errored

\* The positions of the history at which task i was dispatched.
DoRuns(i) == {k \in 1..Len(log) : log[k] = Ev("do_run", i, TRUE)}

\* The number of completion events of task i in the history from a to b.
NbEmissions(i, a, b) ==
    Cardinality({m \in a..b : log[m].ev = "sig_task_done" /\ log[m].task = i})

\* C19: every accepted run() of a task is followed by exactly one completion
\* event before the next accepted run(): never more than one, one when
\* the next run() has been accepted, and one when no process is left to report.
C19_OneEmissionPerRun ==
    \A i \in DOMAIN tasks : \A k \in DoRuns(i) :
        LET later == {m \in DoRuns(i) : m > k}
            upto == IF later = {} THEN Len(log) ELSE Min(later)
        IN  /\ NbEmissions(i, k, upto) <= 1
            /\ later # {} => NbEmissions(i, k, upto) = 1
            /\ (later = {} /\ procs = {}) => NbEmissions(i, k, upto) = 1

\* C20: abort() on a task in state NotStarted makes the task Errored and emits
\* one completion event, with success = false and the text 'Aborted before
\* started.'; it starts and kills no process.
C20_AbortBeforeStart ==
    [][\A i \in DOMAIN tasks :
          (Called("task_abort", i) /\ tasks[i].task_state = NotStarted)
          => /\ tasks'[i].task_state = Errored
             /\ Len(log') = Len(log) + 2
             /\ log'[Len(log')] =
                   EvOut("sig_task_done", i, FALSE, <<"Aborted before started.">>)
             /\ procs' = procs]_vars

\* C21: the answers of the task group are those of their definitions over
\* the aborted flag and the task states.
C21_GroupQueries ==
    /\ is_finished(Group) =
          (aborted \/ \A i \in DOMAIN tasks : tasks[i].task_state \in {Successful, Errored})
    /\ is_successful(Group) =
          (~aborted /\ \A i \in DOMAIN tasks : tasks[i].task_state = Successful)
    /\ is_errored(Group) =
          (aborted \/ \E i \in DOMAIN tasks : tasks[i].task_state = Errored)
    /\ is_started(Group) =
          (\E i \in DOMAIN tasks : tasks[i].task_state \in {Started, Successful, Errored})

\* The group is aborted although each of its three tasks is Successful.
C21_Witness ==
    /\ aborted
    /\ LenTasks(St) = MaxTasks
    /\ \A i \in DOMAIN tasks : tasks[i].task_state = Successful

\* C22: a call of MgExecTaskGroup.abort() sets the aborted flag and changes
\* nothing else: no task state, no process, no counter; and in every step,
\* whoever takes it, a group that is aborted stays aborted.
C22_GroupAbortOnlySetsFlag ==
    [][/\ last' = "group_abort" =>
             /\ aborted'
             /\ tasks' = tasks
             /\ procs' = procs
             /\ <<taskIdx, abortRequested, nbCmdDone, nbError, isStarted, buttonBar,
                  children, cbLog, log>>' =
                <<taskIdx, abortRequested, nbCmdDone, nbError, isStarted, buttonBar,
                  children, cbLog, log>>
       /\ aborted => aborted']_vars

\* abort() has just been called on a group whose task is in flight: the
\* task is Started and its process runs.
C22_Witness ==
    /\ last = "group_abort"
    /\ aborted
    /\ \E p \in procs : ~p.killed /\ tasks[p.task].task_state = Started

\* C23: the precondition made by after_other_taskgroup_is_finished is Errored
\* when the group is None, FulFilled when the group is aborted or has all
\* its tasks done, NotFulfilled otherwise; a group without precondition is
\* FulFilled.
C23_FinishedPrecondition ==
    /\ is_precondition_fulfilled(St, None) = FulFilled
    /\ is_precondition_fulfilled(St, <<"is_taskgroup_finished">>) =
          IF task_group = None THEN PreErrored
          ELSE IF aborted \/ \A i \in DOMAIN tasks : tasks[i].task_state \in {Successful, Errored}
          THEN FulFilled
          ELSE NotFulfilled

\* The group is referenced and finished with an Errored task, without abort.
C23_Witness ==
    /\ task_group = TheTaskGroup
    /\ ~aborted
    /\ \A i \in DOMAIN tasks : is_task_done(tasks[i])
    /\ \E i \in DOMAIN tasks : tasks[i].task_state = Errored

\* The group has started: one of its tasks is Started, Successful or Errored.
GroupStarted == \E i \in DOMAIN tasks : tasks[i].task_state \in {Started, Successful, Errored}

\* The group is finished: aborted, or every task is Successful or Errored.
GroupFinished ==
    aborted \/ \A i \in DOMAIN tasks : tasks[i].task_state \in {Successful, Errored}

\* C24: the started-and-directory-exists precondition is Errored when the
\* group is None; otherwise FulFilled exactly when the group is finished, or
\* started with its directory on disk, and NotFulfilled exactly when it is
\* not finished and either not started or without directory.
C24_StartedAndDirPrecondition ==
    LET r == is_precondition_fulfilled(St, <<"is_taskgroup_started_and_dir_exists">>)
    IN  /\ task_group = None => r = PreErrored
        /\ task_group # None =>
              /\ r = FulFilled <=> (GroupFinished \/ (GroupStarted /\ path_exists))
              /\ r = NotFulfilled <=> (~GroupFinished /\ (~GroupStarted \/ ~path_exists))

\* The group is referenced, aborted before any task was started, and has no
\* directory.
C24_Witness ==
    /\ task_group = TheTaskGroup
    /\ aborted
    /\ ~GroupStarted
    /\ ~path_exists

\* C25: for a referenced group, the started-and-directory-exists precondition
\* is NotFulfilled as long as the group has not started, FulFilled when the
\* group has started and its directory exists, and, from the moment the
\* group is finished, FulFilled after every step.
C25_StartedAndDirOverRun ==
    [][task_group # None =>
          /\ ~GroupStarted => is_taskgroup_started_and_dir_exists(St) = NotFulfilled
          /\ (GroupStarted /\ path_exists) =>
                is_taskgroup_started_and_dir_exists(St) = FulFilled
          /\ GroupFinished => is_taskgroup_started_and_dir_exists(St)' = FulFilled]_vars

\* C26: each of the two preconditions is Errored exactly when the group it
\* refers to is None, and a precondition that is Errored is Errored after
\* every step.
C26_ErroredIsPermanent ==
    [][/\ (is_taskgroup_finished(St) = PreErrored) <=> (task_group = None)
       /\ (is_taskgroup_started_and_dir_exists(St) = PreErrored) <=> (task_group = None)
       /\ is_taskgroup_finished(St) = PreErrored =>
             is_taskgroup_finished(St)' = PreErrored
       /\ is_taskgroup_started_and_dir_exists(St) = PreErrored =>
             is_taskgroup_started_and_dir_exists(St)' = PreErrored]_vars

\* The preconditions refer to None while the group has run to its end.
C26_Witness ==
    /\ task_group = None
    /\ isStarted
    /\ GroupFinished
    /\ Len(cbLog) >= 1

\* C27: run() on a git task that is not Started, while the git executable is
\* not resolved, raises FileNotFoundError, dispatches no process, emits no
\* completion event, and does not leave the task in state Started.
C27_UnresolvedGitFailsFast ==
    [][\A i \in DOMAIN tasks :
          (/\ Called("task_run", i)
           /\ prog_git \in {"None", ""}
           /\ tasks[i].task_state # Started)
          => /\ raised' = "FileNotFoundError"
             /\ procs' = procs
             /\ NbEvents("do_run")' = NbEvents("do_run")
             /\ NbEvents("sig_task_done")' = NbEvents("sig_task_done")
             /\ tasks'[i].task_state # Started]_vars

\* The step is the report of a failure by the process of task i, which has
\* ignore_failure set.
IgnoredFailure(i) ==
    /\ Called("git_task_done", i)
    /\ ~log'[Len(log) + 1].value
    /\ tasks[i].ignore_failure

\* C29: when the process of a task with ignore_failure reports a failure, the
\* runner asks no question and does not count an error; unless an abort is
\* requested it dispatches the next task in the same step; and, in a run
\* without abortItem(), when the task is the last one the runner finalizes
\* in the same step, with overallSuccess = true if no other task failed.
C29_IgnoredFailureIsSuccess ==
    [][\A i \in DOMAIN tasks : IgnoredFailure(i) =>
          /\ nbError' = nbError
          /\ buttonBar' = buttonBar
          /\ NbEvents("askQuestion")' = NbEvents("askQuestion")
          /\ (~abortRequested /\ i < LenTasks(St) - 1) =>
                log'[Len(log')] = Ev("do_run", i + 1, TRUE)
          /\ (nbAbortCalls = 0 /\ i = LenTasks(St) - 1) =>
                /\ Len(cbLog') = Len(cbLog) + 1
                /\ cbLog'[Len(cbLog')].value = (nbError = 0)]_vars

\* The two steps of a tag checkout: step 1, with ignore_failure, failed, step 2
\* succeeded, and the runner has finalized with true.
C29_Witness ==
    /\ LenTasks(St) = 2
    /\ nbAbortCalls = 0
    /\ tasks[0].ignore_failure /\ tasks[0].task_state = Errored
    /\ ~tasks[1].ignore_failure /\ tasks[1].task_state = Successful
    /\ Len(cbLog) = 1
    /\ cbLog[1].value

\* The names that occur in a list of repoBranchInfo, the repositories in which
\* name occurs, and whether it occurs in a local and in a remote list.
OccurringNames ==
    UNION {ToSet(repoBranchInfo[k][2]) \cup ToSet(repoBranchInfo[k][3]) :
           k \in 1..Len(repoBranchInfo)}

ReposWith(name) ==
    {repoBranchInfo[k][1] : k \in {j \in 1..Len(repoBranchInfo) :
        name \in ToSet(repoBranchInfo[j][2]) \cup ToSet(repoBranchInfo[j][3])}}

IsLocal(name) == \E k \in 1..Len(repoBranchInfo) : name \in ToSet(repoBranchInfo[k][2])

IsRemote(name) == \E k \in 1..Len(repoBranchInfo) : name \in ToSet(repoBranchInfo[k][3])

\* C28: analyseRepoBranchOrTagInfo returns a tuple for the names that occur and
\* for no other, one tuple per name; the kind is 'local' when the name is in
\* local lists only, 'remote' when it is in remote lists only, 'local and
\* remote' otherwise; the repositories are those where the name occurs, in
\* ascending order and without repetition, and the count is their number.
C28_AnalyseBranches ==
    last = "analyse" =>
        /\ raised = ""
        /\ \A k \in 1..Len(ret) : ret[k][1] \in OccurringNames
        /\ \A name \in OccurringNames :
              /\ Cardinality({k \in 1..Len(ret) : ret[k][1] = name}) = 1
              /\ \A k \in 1..Len(ret) : ret[k][1] = name =>
                    /\ ret[k][3] = IF ~IsRemote(name) THEN "local"
                                   ELSE IF ~IsLocal(name) THEN "remote"
                                   ELSE "local and remote"
                    /\ ToSet(ret[k][4]) = ReposWith(name)
                    /\ \A i, j \in 1..Len(ret[k][4]) : i < j => ret[k][4][i] < ret[k][4][j]
                    /\ ret[k][2] = Len(ret[k][4])

\* A name that is local in the repository listed first, with the higher
\* name, and remote in the one listed second has been reported.
C28_Witness ==
    /\ last = "analyse"
    /\ Len(repoBranchInfo) = 2
    /\ repoBranchInfo[1][1] > repoBranchInfo[2][1]
    /\ \E name \in BranchNames :
          /\ name \in ToSet(repoBranchInfo[1][2]) /\ name \notin ToSet(repoBranchInfo[1][3])
          /\ name \in ToSet(repoBranchInfo[2][3]) /\ name \notin ToSet(repoBranchInfo[2][2])
          /\ \E k \in 1..Len(ret) : ret[k][1] = name /\ ret[k][2] = 2

\* The commands of the delete dialog for branch b.
RemoteDelete(b) == <<"push", "origin", "--delete", b>>

LocalDelete(b) == <<"branch", "-d", b>>

\* Repository k of the dialog has b among its remote branches, on whichever
\* remote.
HasRemote(k, b) ==
    \E j \in 1..Len(dialog.targetedRepoList[k].branches_remote) :
        \E remote \in {"origin", "upstream"} :
            dialog.targetedRepoList[k].branches_remote[j] = <<remote>> \o b

HasLocal(k, b) ==
    \E j \in 1..Len(dialog.targetedRepoList[k].branches_local) :
        dialog.targetedRepoList[k].branches_local[j] = b

\* C30: in the commands of a repository, a local deletion of a branch that is
\* also deleted remotely comes right after a remote deletion of that branch,
\* and the first remote deletion comes before the first local one; a remote
\* deletion is there only if the remote box is checked and the repository
\* has the remote branch, a local one only if the local box is checked and the
\* repository has the local branch; no entry has an empty command list, and
\* the entries are, in order, the repositories that have a command.
C30_DeleteOrder ==
    last = "delete" =>
        /\ \A e \in 1..Len(descRepoCmdBranch) :
              LET k == descRepoCmdBranch[e][2].name
                  gitCmds == descRepoCmdBranch[e][3]
              IN  /\ Len(gitCmds) > 0
                  /\ \A p \in 1..Len(gitCmds) : \E b \in ToSet(dialog.deleteBranchesName) :
                        \/ /\ gitCmds[p] = RemoteDelete(b)
                           /\ dialog.checkBoxDeleteRemoteBranch
                           /\ HasRemote(k, b)
                        \/ /\ gitCmds[p] = LocalDelete(b)
                           /\ dialog.checkBoxDeleteLocalBranch
                           /\ HasLocal(k, b)
                  /\ \A b \in DeleteBranchNames : \A p \in 1..Len(gitCmds) :
                        (/\ gitCmds[p] = LocalDelete(b)
                         /\ \E q \in 1..Len(gitCmds) : gitCmds[q] = RemoteDelete(b))
                        => /\ p > 1
                           /\ gitCmds[p - 1] = RemoteDelete(b)
                           /\ \E q \in 1..(p - 1) :
                                 /\ gitCmds[q] = RemoteDelete(b)
                                 /\ \A r \in 1..q : gitCmds[r] # LocalDelete(b)
        /\ \A e, f \in 1..Len(descRepoCmdBranch) :
              e < f => descRepoCmdBranch[e][2].name < descRepoCmdBranch[f][2].name
        /\ \A k \in 1..Len(dialog.targetedRepoList) :
              (\A b \in ToSet(dialog.deleteBranchesName) :
                    /\ ~(dialog.checkBoxDeleteRemoteBranch /\ HasRemote(k, b))
                    /\ ~(dialog.checkBoxDeleteLocalBranch /\ HasLocal(k, b)))
              => \A e \in 1..Len(descRepoCmdBranch) : descRepoCmdBranch[e][2].name # k

\* Two repositories and both boxes checked: one repository has fix/dev as a
\* local and as a remote branch and gets both commands, the other has
\* nothing to delete and gets no entry.
C30_Witness ==
    /\ last = "delete"
    /\ Len(dialog.targetedRepoList) = 2
    /\ Len(descRepoCmdBranch) = 1
    /\ descRepoCmdBranch[1][3] = <<RemoteDelete(<<"fix", "dev">>), LocalDelete(<<"fix", "dev">>)>>

\* C31: at every invocation of cbExecDone, is_finished() of the task group
\* answers true, whichever way the runner finalizes.
C31_CallbackImpliesFinished ==
    \A k \in 1..Len(cbLog) : cbLog[k].is_finished

\* C32: once is_finished() of the task group answers true, it answers true
\* after every later step, and no later step starts a task.
C32_FinishedIsStable ==
    [][is_finished(Group) =>
          /\ is_finished(Group)'
          /\ NbEvents("do_run")' = NbEvents("do_run")]_vars

\* C33 as stated: at every invocation of cbExecDone, the value passed is true
\* exactly when is_successful() of the task group answers true at that moment.
C33_CallbackAgreesWithGroup ==
    \A k \in 1..Len(cbLog) : cbLog[k].value = cbLog[k].is_successful

\* At invocation k of cbExecDone, task i is Successful, or Errored with its
\* failure ignored.
PassedAt(k, i) ==
    \/ is_task_successful(cbLog[k].tasks[i])
    \/ is_task_errored(cbLog[k].tasks[i]) /\ cbLog[k].tasks[i].ignore_failure

\* C33, amended: at every invocation of cbExecDone, the value passed is true
\* exactly when the task group is not aborted and every task is Successful,
\* or Errored with ignore_failure set; so is_successful() implies the value.
C33_CallbackAgreesUpToIgnoredFailures ==
    \A k \in 1..Len(cbLog) :
        /\ cbLog[k].value = (/\ ~cbLog[k].aborted
                             /\ \A i \in DOMAIN cbLog[k].tasks : PassedAt(k, i))
        /\ cbLog[k].is_successful => cbLog[k].value

\* The callback has been invoked with true for a group that has a task whose
\* failure was ignored: is_successful() answered false at that moment.
C33_Witness ==
    \E k \in 1..Len(cbLog) :
        /\ cbLog[k].value
        /\ ~cbLog[k].is_successful
        /\ \E i \in DOMAIN cbLog[k].tasks : is_task_errored(cbLog[k].tasks[i])

\* The step is a decision on the pending question: a button of the bar, or
\* abortItem() taking the branch for a pending question.
ResolvesPrompt ==
    \E ev \in {ABORT, CONTINUE, RETRY, OK, "abortItem_prompt"} :
        \E i \in DOMAIN tasks \cup {-1} : Called(ev, i)

\* C34: while a question is pending no task is Started and no process is to
\* report; a question is asked only when none is pending, one per step; and
\* a step taken while a question is pending starts a task, changes a task or
\* invokes cbExecDone only if it is the decision on that question.
C34_PromptIsExclusive ==
    [][/\ buttonBar' # None => (StartedTasks' = {} /\ procs' = {})
       /\ NbEvents("askQuestion")' > NbEvents("askQuestion") =>
             /\ NbEvents("askQuestion")' = NbEvents("askQuestion") + 1
             /\ buttonBar = None
             /\ buttonBar' # None
       /\ (/\ buttonBar # None
           /\ \/ NbEvents("do_run")' > NbEvents("do_run")
              \/ Len(cbLog') > Len(cbLog)
              \/ tasks' # tasks)
          => ResolvesPrompt]_vars

\* A question is pending after the first of several tasks failed.
C34_Witness ==
    /\ buttonBar # None
    /\ last = "git_task_done"
    /\ tasks[0].task_state = Errored
    /\ \E i \in DOMAIN tasks : tasks[i].task_state = NotStarted

\* C35: in every state, 0 <= nbError <= nbCmdDone <= len(taskGroup) and
\* -1 <= taskIdx < len(taskGroup); before the callback, nbCmdDone is taskIdx
\* while a task is in flight and taskIdx + 1 while a question is pending.
C35_CounterRanges ==
    /\ 0 <= nbError
    /\ nbError <= nbCmdDone
    /\ nbCmdDone <= LenTasks(St)
    /\ -1 <= taskIdx
    /\ taskIdx < LenTasks(St)
    /\ (Len(cbLog) = 0 /\ StartedTasks # {}) => nbCmdDone = taskIdx
    /\ (Len(cbLog) = 0 /\ buttonBar # None) => nbCmdDone = taskIdx + 1

\* C36: no handler that reaches runOneCmdline (run(), the report of a
\* process, the Continue and Retry choices) ends with the assertion of
\* runOneCmdline failed or with tasks[taskIdx] out of range.
C36_RunOneCmdlineIsSafe ==
    last \in {"run", "git_task_done", CONTINUE, RETRY} =>
        raised \notin {"AssertionError", "IndexError"}

\* C37: abortItem() never ends with ValueError('Should not be reached!'), and
\* in every state where the runner is started, nbCmdDone is not the number
\* of tasks and no question is pending, exactly one task is Started.
C37_AbortFindsATask ==
    /\ last = "abortItem" => raised # "ValueError"
    /\ (isStarted /\ nbCmdDone # LenTasks(St) /\ buttonBar = None) =>
          Cardinality(StartedTasks) = 1

\* C38: is_successful() and is_errored() are never both true, is_successful()
\* implies is_finished(), and of a finished group exactly one of
\* is_successful() and is_errored() is true.
C38_GroupOutcomeIsExclusive ==
    /\ ~(is_successful(Group) /\ is_errored(Group))
    /\ is_successful(Group) => is_finished(Group)
    /\ is_finished(Group) => (is_successful(Group) # is_errored(Group))

\* A group that finished without being aborted, one task Successful and
\* another Errored.
C38_Witness ==
    /\ ~aborted
    /\ is_finished(Group)
    /\ is_errored(Group)
    /\ \E i \in DOMAIN tasks : tasks[i].task_state = Successful

\* C39: every refresh() of the repository comes right after an invocation of
\* cbExecDone, none after the completion of a single task; and refresh() is
\* invoked exactly once per group: at most once in every state, and once
\* when the group has ended.
C39_RefreshOnceAtFinalization ==
    /\ \A k \in 1..Len(log) : log[k].ev = "refresh" =>
          /\ k > 1
          /\ log[k - 1].ev = "cbExecDone"
    /\ \A k \in 1..Len(children) : ~children[k].refresh_when_completed
    /\ NbEvents("refresh") <= 1
    /\ GroupEnded => NbEvents("refresh") = 1

=============================================================================
